---- MODULE Spec2Model ----
(***************************************************************************)
(* The four-stage agent pipeline of the retail insights assistant:         *)
(* RetailInsightsOrchestrator.process_query drives query resolution, data  *)
(* extraction, validation and synthesis over one run record (AgentState).  *)
(*                                                                         *)
(* Conventions.  A Python str is a sequence of tokens (an f-string is the  *)
(* concatenation of its literal parts and the formatted values), so "" is  *)
(* <<>>.  A list of strings is a sequence of such sequences.  An Optional  *)
(* value is <<>> for None and <<v>> otherwise.  A dict with a fixed key    *)
(* set is a record; {} is the function with the empty domain.  Floats      *)
(* that are multiples of 0.1 are kept in tenths.                           *)
(***************************************************************************)
EXTENDS Integers, Sequences, FiniteSets, TLC

VARIABLES
    pc,           \* position of process_query in the workflow
    state,        \* the AgentState channels of the running workflow
    response,     \* what process_query returned for the current call
    last_query,   \* DataExtractionAgent.last_query
    last_result,  \* DataExtractionAgent.last_result
    ran,          \* history: the stage nodes executed in this call, in order
    caught,       \* history: the stages whose except branch ran in this call
    calls,        \* history: outcome of each collaborator call of this call
    recv,         \* history: the inputs the later stages read from the record
    fault,        \* history: the driver fault of this call, if any
    self_df,      \* DataExtractionAgent.df, the dataset handle
    call,         \* history: the latest extract_by_intent call and what it gave
    first,        \* history: the first extract_by_intent call and what it gave
    overall       \* the running or latest call of generate_summary and its result

vars ==
    <<pc, state, response, last_query, last_result, ran, caught, calls, recv, fault,
      self_df, call, first, overall>>

(***************************************************************************)
(* Bounds of the model                                                     *)
(***************************************************************************)
MaxRows == 2
MaxDataRows == 2

(***************************************************************************)
(* Values                                                                  *)
(***************************************************************************)
None == <<>>
Some(v) == <<v>>

EmptyDict == [k \in {} |-> TRUE]

NullText == "NaN"
NullNum == -1

\* pd.DataFrame(): no columns, no rows
EmptyDataFrame == [columns |-> <<>>, types |-> <<>>, rows |-> <<>>]

ResultColumns == <<"Region", "Sales">>
ResultTypes == <<"text", "number">>
RowUniverse == { <<"North", 1>>, <<NullText, 1>> }

RECURSIVE SeqsUpTo(_, _)
SeqsUpTo(S, n) ==
    IF n = 0 THEN { <<>> }
    ELSE LET shorter == SeqsUpTo(S, n - 1)
         IN shorter \cup { Append(s, x) : s \in { t \in shorter : Len(t) = n - 1 }, x \in S }

\* the relations the tabular engine may hand back
Relations ==
    { [columns |-> ResultColumns, types |-> ResultTypes, rows |-> r] :
        r \in SeqsUpTo(RowUniverse, MaxRows) }

NumRows(df) == Len(df.rows)
NumCols(df) == Len(df.columns)

Questions == { <<"What were the total sales?">>, <<"Which region sold most?">> }

\* str(e) of the exceptions the collaborators raise; str(e) may be empty
ErrorTexts == { <<"connection reset">>, <<>> }

\* an exception that reaches a stage handler; "at" says where it was raised
NoFault == [raised |-> FALSE, msg |-> <<>>, at |-> "none"]
Faults == { NoFault } \cup { [raised |-> TRUE, msg |-> m, at |-> "call"] : m \in ErrorTexts }
\* the synthesizer may also fail while it builds its fallback summary
SynthFaults ==
    Faults \cup { [raised |-> TRUE, msg |-> m, at |-> "fallback"] : m \in ErrorTexts }

(***************************************************************************)
(* QueryResolutionAgent (query_agent.py)                                   *)
(***************************************************************************)
\* QueryIntent with every field given
QueryIntent(qt, ents, mets, flt, agg, sort, lim) ==
    [query_type |-> qt, entities |-> ents, metrics |-> mets, time_period |-> None,
     filters |-> flt, aggregation |-> agg, sort_by |-> sort, limit |-> lim,
     sql_query |-> None]

\* mutant: the substitute intent asks for a query type with no strategy
DefaultIntent_Unknown == QueryIntent("unknown", <<>>, <<>>, <<>>, None, None, None)

\* the intent resolve_query substitutes when the chain fails
DefaultIntent == QueryIntent("summary", <<>>, <<>>, <<>>, None, None, None)

\* intents the structured-output parser may produce from the LLM's text
ParsedIntents ==
    { QueryIntent("comparison", <<"region">>, <<"Sales">>, <<>>, None, None, None),
      QueryIntent("filter", <<>>, <<>>, << <<"Region", "North">> >>, None, None, Some(5)) }

\* outcome of prompt | llm | parser: a parsed intent, or a provider/parse failure
IntentChainOutcomes ==
    { [ok |-> TRUE, intent |-> i, msg |-> <<>>] : i \in ParsedIntents }
    \cup { [ok |-> FALSE, intent |-> DefaultIntent, msg |-> m] : m \in ErrorTexts }

resolve_query(query, chain) ==
    IF chain.ok THEN chain.intent ELSE DefaultIntent

\* the Markdown code-fence token (three backquotes)
Fence == "<fence>"
Whitespace == { " ", "\n" }
DefaultTable == "sales_data"

RECURSIVE LStrip(_)
LStrip(s) == IF s # <<>> /\ Head(s) \in Whitespace THEN LStrip(Tail(s)) ELSE s

RECURSIVE RStrip(_)
RStrip(s) ==
    IF s # <<>> /\ s[Len(s)] \in Whitespace THEN RStrip(SubSeq(s, 1, Len(s) - 1)) ELSE s

\* str.strip()
Strip(s) == RStrip(LStrip(s))

RECURSIVE UpToFence(_)
UpToFence(s) ==
    IF s = <<>> \/ Head(s) = Fence THEN <<>> ELSE <<Head(s)>> \o UpToFence(Tail(s))

\* sql.split(fence)[1] for a text that starts with the fence
SecondFencePart(s) == UpToFence(Tail(s))

\* the clean-up of the reply in generate_sql
CleanSql(content) ==
    LET sql == Strip(content)
    IN IF sql # <<>> /\ Head(sql) = Fence
       THEN LET part == SecondFencePart(sql)
                body == IF part # <<>> /\ Head(part) = "sql" THEN Tail(part) ELSE part
            IN Strip(body)
       ELSE sql

FallbackSql(table_name) == <<"SELECT * FROM ", table_name, " LIMIT 10">>

generate_sql(query, llm, table_name) ==
    IF llm.ok THEN CleanSql(llm.content) ELSE FallbackSql(table_name)

PlainSql == "SELECT Region, Sales FROM sales_data"
TopSql == "SELECT Region, Sales FROM sales_data ORDER BY Sales DESC LIMIT 5"

\* replies of the LLM to the SQL prompt
SqlReplies ==
    { <<PlainSql>>,
      <<Fence, "sql", "\n", TopSql, "\n", Fence>>,
      <<Fence, "\n", PlainSql, "\n", Fence>>,
      <<>>,
      <<Fence, Fence>> }

LlmOutcomes(replies) ==
    { [ok |-> TRUE, content |-> c] : c \in replies }
    \cup { [ok |-> FALSE, content |-> m] : m \in ErrorTexts }

(***************************************************************************)
(* DataExtractionAgent.execute_sql (extraction_agent.py)                   *)
(***************************************************************************)
\* outcome of db_conn.execute(sql).fetchdf(): a relation, or the engine raises
EngineOutcomes ==
    { [ok |-> TRUE, df |-> r, msg |-> <<>>] : r \in Relations }
    \cup { [ok |-> FALSE, df |-> EmptyDataFrame, msg |-> m] : m \in ErrorTexts }

\* the value execute_sql hands back, or the exception it re-raises
execute_sql(sql_query, eng) ==
    IF eng.ok THEN [raised |-> FALSE, df |-> eng.df, msg |-> <<>>]
    ELSE [raised |-> TRUE, df |-> EmptyDataFrame, msg |-> eng.msg]

\* mutant: a failed execution clears the remembered query
LastQueryAfter_ClearOnFailure(sql_query, eng, old) ==
    IF eng.ok THEN Some(sql_query) ELSE None

\* last_query / last_result are written on success only
LastQueryAfter(sql_query, eng, old) == IF eng.ok THEN Some(sql_query) ELSE old
LastResultAfter(eng, old) == IF eng.ok THEN Some(eng.df) ELSE old

(***************************************************************************)
(* Relations as pandas sees them                                           *)
(***************************************************************************)
IsNullCell(df, r, c) ==
    IF df.types[c] = "number" THEN df.rows[r][c] = NullNum ELSE df.rows[r][c] = NullText

\* result.isnull().sum()[c]
NullCount(df, c) == Cardinality({ r \in 1..NumRows(df) : IsNullCell(df, r, c) })

RECURSIVE SumOver(_, _)
SumOver(f, S) ==
    IF S = {} THEN 0 ELSE LET x == CHOOSE y \in S : TRUE IN f[x] + SumOver(f, S \ {x})

\* null_counts.sum()
NullTotal(df) == SumOver([c \in 1..NumCols(df) |-> NullCount(df, c)], 1..NumCols(df))

\* len(result.drop_duplicates())
DistinctRows(df) == Cardinality({ df.rows[r] : r \in 1..NumRows(df) })

\* df.head(n)
DfHead(df, n) == [df EXCEPT !.rows = SubSeq(df.rows, 1, IF NumRows(df) < n THEN NumRows(df) ELSE n)]

(***************************************************************************)
(* The dataset and the intents handed to extract_by_intent                 *)
(***************************************************************************)
SalesColumns == <<"Region", "Category", "Sales">>
SalesTypes == <<"text", "text", "number">>
SalesRows ==
    { <<"North", "Electronics", 1>>, <<"South", "Toys", 2>>, <<NullText, "Toys", NullNum>> }

\* a dataset whose first column only carries "date" in its name and whose second
\* column is of datetime type (values are day numbers)
ShipmentColumns == <<"Update", "Shipped", "Sales">>
ShipmentTypes == <<"text", "datetime", "number">>
ShipmentRows == { <<"a", 2, 1>>, <<"b", 1, 2>> }

\* the rows head(10) keeps, and the limit of a filter or aggregation with none given
FallbackRows == 10
DefaultLimit == 100

\* a dataset with more rows than the default limit
LongData ==
    [columns |-> SalesColumns, types |-> SalesTypes,
     rows |-> [i \in 1..(DefaultLimit + 1) |-> <<"North", "Electronics", 1>>]]

Datasets ==
    { [columns |-> SalesColumns, types |-> SalesTypes, rows |-> r] :
        r \in SeqsUpTo(SalesRows, MaxDataRows) }
    \cup { [columns |-> ShipmentColumns, types |-> ShipmentTypes, rows |-> r] :
             r \in SeqsUpTo(ShipmentRows, MaxDataRows) }
    \cup { LongData }

\* the dataset the orchestrator of the pipeline runs is constructed with
SampleData ==
    [columns |-> SalesColumns, types |-> SalesTypes,
     rows |-> << <<"North", "Electronics", 1>>, <<"South", "Toys", 2>> >>]

\* intent.get(key, default) on a dict
Get(intent, key, default) == IF key \in DOMAIN intent THEN intent[key] ELSE default

\* intents as the resolver produces them (QueryIntent.dict(): every key present)
ResolverIntents ==
    { DefaultIntent,
      QueryIntent("summary", <<>>, <<"Sales">>, <<>>, None, None, None),
      QueryIntent("summary", <<>>, <<"Revenue">>, <<>>, None, None, None),
      QueryIntent("summary", <<>>, <<"Sales", "Revenue">>, <<>>, None, None, None),
      QueryIntent("comparison", <<"region">>, <<"Sales">>, <<>>, None, None, None),
      QueryIntent("comparison", <<"store">>, <<"Sales">>, <<>>, None, None, None),
      QueryIntent("comparison", <<"Region">>, <<"Revenue">>, <<>>, None, None, None),
      QueryIntent("comparison", <<"sales">>, <<"Sales">>, <<>>, None, None, None),
      QueryIntent("comparison", <<"category", "region">>, <<"Sales">>, <<>>, None, None, None),
      QueryIntent("trend", <<>>, <<"Sales">>, <<>>, None, None, None),
      QueryIntent("trend", <<>>, <<"Revenue">>, <<>>, None, None, None),
      QueryIntent("filter", <<>>, <<>>, << <<"Region", "North">> >>, None, None, None),
      QueryIntent("filter", <<>>, <<>>,
                  << <<"Category", "Toys">>, <<"Region", "South">> >>, None, None, Some(1)),
      QueryIntent("filter", <<"store">>, <<>>, << <<"Store", "Main">> >>, None, None, Some(5)),
      QueryIntent("aggregation", <<"region">>, <<"Sales">>, <<>>, Some("sum"), None, None),
      QueryIntent("aggregation", <<"region">>, <<"Sales">>, <<>>, Some("avg"), None, Some(5)),
      QueryIntent("aggregation", <<"category">>, <<"Sales">>, <<>>, Some("max"),
                  Some("Sales"), Some(1)),
      QueryIntent("aggregation", <<"region">>, <<"Sales">>, <<>>, Some("count"),
                  Some("Region"), Some(5)),
      QueryIntent("aggregation", <<"store">>, <<"Sales">>, <<>>, Some("sum"), None, Some(5)),
      QueryIntent("aggregation", <<"category", "region">>, <<"Sales">>, <<>>, Some("sum"),
                  None, Some(5)),
      QueryIntent("ranking", <<"region">>, <<"Sales">>, <<>>, None, None, None) }

\* intents a caller writes as a plain dict, with only some of the keys
DictIntents ==
    { [query_type |-> "filter", filters |-> << <<"Category", "Electronics">> >>,
       limit |-> Some(5)],
      [query_type |-> "filter", filters |-> << <<"Region", "North">> >>],
      [query_type |-> "aggregation", entities |-> <<"region">>, metrics |-> <<"Sales">>],
      [entities |-> <<"region">>, metrics |-> <<"Revenue">>] }

Intents == ResolverIntents \cup DictIntents

(***************************************************************************)
(* DataExtractionAgent.extract_by_intent (extraction_agent.py)             *)
(***************************************************************************)
HasColumn(d, name) == \E c \in 1..NumCols(d) : d.columns[c] = name

\* the position of a column of the dataset
ColIndex(d, name) == CHOOSE c \in 1..NumCols(d) : d.columns[c] = name

\* str.lower() on the column and entity names of the model
LowerName(name) ==
    CASE name = "Region" -> "region"
      [] name = "Category" -> "category"
      [] name = "Sales" -> "sales"
      [] name = "Update" -> "update"
      [] name = "Shipped" -> "shipped"
      [] OTHER -> name

\* a in b for lower-case names: the proper substrings among the names of the model
ProperSubstrings == { <<"date", "update">> }
NameContains(b, a) == a = b \/ <<a, b>> \in ProperSubstrings

\* the result of a strategy: a relation, or the exception that leaves it
Returns(d) == [raised |-> FALSE, error |-> "none", df |-> d]
Raises(e) == [raised |-> TRUE, error |-> e, df |-> EmptyDataFrame]

\* the non-null values of column c, in row order
ColumnValues(d, c) ==
    LET keep == SelectSeq([r \in 1..NumRows(d) |-> r], LAMBDA r : ~IsNullCell(d, r, c))
    IN [i \in 1..Len(keep) |-> d.rows[keep[i]][c]]

\* the order pandas sorts the values of a column in: text alphabetically
SortRank(type, v) ==
    IF type = "text"
    THEN CASE v = "Electronics" -> 1
           [] v = "North" -> 2
           [] v = "South" -> 3
           [] v = "Toys" -> 4
           [] v = "a" -> 5
           [] v = "b" -> 6
           [] OTHER -> 7
    ELSE v

RECURSIVE SortedBy(_, _)
\* the values of a set in ascending order of a rank
SortedBy(S, rank) ==
    IF S = {} THEN <<>>
    ELSE LET least == CHOOSE x \in S : \A y \in S : rank[x] <= rank[y]
         IN <<least>> \o SortedBy(S \ {least}, rank)

\* the keys of groupby(col): the distinct non-null values, ascending
GroupKeys(d, c) ==
    LET vals == { d.rows[r][c] : r \in { q \in 1..NumRows(d) : ~IsNullCell(d, q, c) } }
    IN SortedBy(vals, [v \in vals |-> SortRank(d.types[c], v)])

\* the non-null values of column m in the rows of one group
GroupValues(d, c, key, m) ==
    LET rws == SelectSeq([r \in 1..NumRows(d) |-> r],
                         LAMBDA r : ~IsNullCell(d, r, c) /\ d.rows[r][c] = key
                                    /\ ~IsNullCell(d, r, m))
    IN [i \in 1..Len(rws) |-> d.rows[rws[i]][m]]

RECURSIVE SeqSum(_)
\* the sum of a sample, taken half by half
SeqSum(s) ==
    IF s = <<>> THEN 0
    ELSE IF Len(s) = 1 THEN s[1]
    ELSE SeqSum(SubSeq(s, 1, Len(s) \div 2)) + SeqSum(SubSeq(s, Len(s) \div 2 + 1, Len(s)))

\* the largest and the smallest value of a non-empty sample
SeqMax(s) ==
    CHOOSE x \in { s[i] : i \in 1..Len(s) } : \A j \in 1..Len(s) : x >= s[j]
SeqMin(s) ==
    CHOOSE x \in { s[i] : i \in 1..Len(s) } : \A j \in 1..Len(s) : x <= s[j]

\* a statistic pandas computes as a float: the name and the sample it is taken of,
\* NaN for a sample without values
Statistic(name, sample) == IF sample = <<>> THEN <<"NaN">> ELSE <<name, sample>>

\* the aggregate of one group under a groupby method
Aggregate(method, sample) ==
    CASE method = "sum" -> SeqSum(sample)
      [] method = "count" -> Len(sample)
      [] method = "max" -> IF sample = <<>> THEN NullNum ELSE SeqMax(sample)
      [] method = "min" -> IF sample = <<>> THEN NullNum ELSE SeqMin(sample)
      [] OTHER -> Statistic(method, sample)

(***************************************************************************)
\* mutant: the fallback hands out the whole dataset
HeadFallback_Whole(d) == Returns(d)

\* self.df.head(10), the fallback of the strategies
HeadFallback(d) == Returns(DfHead(d, FallbackRows))

\* the positions of the numeric columns, in column order
NumericColumns(d) == SelectSeq([c \in 1..NumCols(d) |-> c], LAMBDA c : d.types[c] = "number")

DescribeIndex == <<"count", "mean", "std", "min", "25%", "50%", "75%", "max">>

\* self.df[numeric_cols].describe(): one row per statistic, one cell per column
Describe(d) ==
    LET cols == NumericColumns(d)
    IN IF cols = <<>> THEN Raises("ValueError")
       ELSE Returns(
              [columns |-> [i \in 1..Len(cols) |-> d.columns[cols[i]]],
               types |-> [i \in 1..Len(cols) |-> "float"],
               rows |-> [k \in 1..Len(DescribeIndex) |->
                           [i \in 1..Len(cols) |->
                              IF DescribeIndex[k] = "count"
                              THEN Len(ColumnValues(d, cols[i]))
                              ELSE Statistic(DescribeIndex[k], ColumnValues(d, cols[i]))]]])

\* the keys of a dict filled in this order: a repeated key keeps its first place
Dedup(names) ==
    LET firsts == SelectSeq([i \in 1..Len(names) |-> i],
                            LAMBDA i : \A j \in 1..(i - 1) : names[j] # names[i])
    IN [k \in 1..Len(firsts) |-> names[firsts[k]]]

\* the four result columns of a metric: the f-strings on the metric names of the model
MetricColumns(metric) ==
    CASE metric = "Sales" -> <<"Sales_total", "Sales_avg", "Sales_max", "Sales_min">>
      [] OTHER -> <<"_total", "_avg", "_max", "_min">>

\* the four cells of a metric
MetricCells(d, metric) ==
    LET sample == ColumnValues(d, ColIndex(d, metric))
    IN <<SeqSum(sample), Statistic("mean", sample),
         IF sample = <<>> THEN NullNum ELSE SeqMax(sample),
         IF sample = <<>> THEN NullNum ELSE SeqMin(sample)>>

RECURSIVE Flatten(_)
Flatten(ss) == IF ss = <<>> THEN <<>> ELSE Head(ss) \o Flatten(Tail(ss))

\* the one-row frame built from result_data
SummaryFrame(d, found) ==
    [columns |-> Flatten([i \in 1..Len(found) |-> MetricColumns(found[i])]),
     types |-> Flatten([i \in 1..Len(found) |-> <<"float", "float", "float", "float">>]),
     rows |-> << Flatten([i \in 1..Len(found) |-> MetricCells(d, found[i])]) >>]

\* the statistics of a metric column that is not numeric raise: mean of text,
\* sum of datetimes
_extract_summary(d, intent) ==
    LET metrics == Get(intent, "metrics", <<>>)
        found == Dedup(SelectSeq(metrics, LAMBDA m : HasColumn(d, m)))
    IN IF metrics = <<>> THEN Describe(d)
       ELSE IF found = <<>> THEN Returns(EmptyDataFrame)
       ELSE IF \E i \in 1..Len(found) : d.types[ColIndex(d, found[i])] # "number"
            THEN Raises("TypeError")
       ELSE Returns(SummaryFrame(d, found))

\* mutant: only the first entity is looked for
EntityColumn_FirstEntity(d, entities) ==
    LET hits == { c \in 1..NumCols(d) :
                    NameContains(LowerName(d.columns[c]), LowerName(entities[1])) }
    IN IF hits = {} THEN 0 ELSE CHOOSE c \in hits : \A h \in hits : c <= h

\* the first column, in column order, whose name contains any of the entities
EntityColumn(d, entities) ==
    LET hits == { c \in 1..NumCols(d) :
                    \E i \in 1..Len(entities) :
                        NameContains(LowerName(d.columns[c]), LowerName(entities[i])) }
    IN IF hits = {} THEN 0 ELSE CHOOSE c \in hits : \A h \in hits : c <= h

\* groupby(e)[m].<method>().reset_index(): one row per key, keys ascending;
\* reset_index cannot insert the key column when the metric column has its name
GroupBy(d, e, m, method) ==
    IF e = m THEN Raises("ValueError")
    ELSE LET keys == GroupKeys(d, e)
         IN Returns([columns |-> <<d.columns[e], d.columns[m]>>,
                     types |-> <<d.types[e], IF method = "mean" THEN "float" ELSE "number">>,
                     rows |-> [k \in 1..Len(keys) |->
                                 <<keys[k], Aggregate(method, GroupValues(d, e, keys[k], m))>>]])

\* rank of a cell for sort_values: a missing value sorts last in either direction
CellRank(type, v, descending) ==
    IF type # "text" /\ v = NullNum THEN (IF descending THEN -1 ELSE 1000)
    ELSE SortRank(type, v)

RECURSIVE InsertRow(_, _, _, _, _)
\* insert a row behind the rows that sort before it or equal to it
InsertRow(sorted, row, c, type, descending) ==
    IF sorted = <<>> THEN <<row>>
    ELSE LET h == CellRank(type, Head(sorted)[c], descending)
             x == CellRank(type, row[c], descending)
         IN IF (IF descending THEN x > h ELSE x < h)
            THEN <<row>> \o sorted
            ELSE <<Head(sorted)>> \o InsertRow(Tail(sorted), row, c, type, descending)

RECURSIVE SortRows(_, _, _, _)
SortRows(rows, c, type, descending) ==
    IF rows = <<>> THEN <<>>
    ELSE InsertRow(SortRows(SubSeq(rows, 1, Len(rows) - 1), c, type, descending),
                   rows[Len(rows)], c, type, descending)

\* result.sort_values(column, ascending=not descending); rows that tie keep their order
SortValues(rel, column, descending) ==
    LET c == ColIndex(rel, column)
    IN [rel EXCEPT !.rows = SortRows(rel.rows, c, rel.types[c], descending)]

_extract_comparison(d, intent) ==
    LET entities == Get(intent, "entities", <<>>)
        metrics == Get(intent, "metrics", <<>>)
    IN IF entities = <<>> \/ metrics = <<>> THEN HeadFallback(d)
       ELSE LET entity_col == EntityColumn(d, entities)
            IN IF entity_col = 0 THEN HeadFallback(d)
               ELSE IF ~HasColumn(d, metrics[1]) THEN HeadFallback(d)
               ELSE LET g == GroupBy(d, entity_col, ColIndex(d, metrics[1]), "sum")
                    IN IF g.raised THEN g
                       ELSE Returns(SortValues(g.df, metrics[1], TRUE))

\* mutant: a column of datetime type is preferred to one named like a date
DateColumn_TypeFirst(d) ==
    LET typed == { c \in 1..NumCols(d) : d.types[c] = "datetime" }
        named == { c \in 1..NumCols(d) : NameContains(LowerName(d.columns[c]), "date") }
        hits == IF typed # {} THEN typed ELSE named
    IN IF hits = {} THEN 0 ELSE CHOOSE c \in hits : \A h \in hits : c <= h

\* the first column, in column order, of datetime type or with date in its name
DateColumn(d) ==
    LET hits == { c \in 1..NumCols(d) :
                    d.types[c] = "datetime" \/ NameContains(LowerName(d.columns[c]), "date") }
    IN IF hits = {} THEN 0 ELSE CHOOSE c \in hits : \A h \in hits : c <= h

_extract_trend(d, intent) ==
    LET metrics == Get(intent, "metrics", <<>>)
        date_col == DateColumn(d)
    IN IF date_col = 0 \/ metrics = <<>> THEN HeadFallback(d)
       ELSE IF ~HasColumn(d, metrics[1]) THEN HeadFallback(d)
       ELSE LET g == GroupBy(d, date_col, ColIndex(d, metrics[1]), "sum")
            IN IF g.raised THEN g
               ELSE Returns(SortValues(g.df, d.columns[date_col], FALSE))

RECURSIVE ApplyFilters(_, _)
\* the equality filters in the order given; a filter on a missing column is skipped
ApplyFilters(d, filters) ==
    IF filters = <<>> THEN d
    ELSE LET col == Head(filters)[1]
             value == Head(filters)[2]
             kept == IF HasColumn(d, col)
                     THEN [d EXCEPT !.rows =
                             SelectSeq(d.rows, LAMBDA row :
                                 LET c == ColIndex(d, col)
                                 IN row[c] # (IF d.types[c] = "text" THEN NullText ELSE NullNum)
                                    /\ row[c] = value)]
                     ELSE d
         IN ApplyFilters(kept, Tail(filters))

\* result.head(limit): head(None) is the whole frame, a negative n drops the tail
HeadLimit(d, limit) ==
    IF limit = None THEN d
    ELSE IF limit[1] >= 0 THEN DfHead(d, limit[1])
    ELSE [d EXCEPT !.rows = SubSeq(d.rows, 1, NumRows(d) + limit[1])]

_extract_filtered(d, intent) ==
    LET result == ApplyFilters(d, Get(intent, "filters", <<>>))
    IN Returns(HeadLimit(result, Get(intent, "limit", Some(DefaultLimit))))

\* the attributes of a groupby column that aggregate
GroupByMethods == {"sum", "mean", "max", "min", "count"}

\* getattr(..., None, 'sum') raises; for a name that is no attribute it gives the
\* string 'sum', and calling that raises
_extract_aggregation(d, intent) ==
    LET entities == Get(intent, "entities", <<>>)
        metrics == Get(intent, "metrics", <<>>)
        aggregation == Get(intent, "aggregation", Some("sum"))
    IN IF entities = <<>> \/ metrics = <<>> THEN HeadFallback(d)
       ELSE LET entity_col == EntityColumn(d, entities)
            IN IF entity_col = 0 THEN HeadFallback(d)
               ELSE IF ~HasColumn(d, metrics[1]) THEN HeadFallback(d)
               ELSE IF aggregation = None \/ aggregation[1] \notin GroupByMethods
                    THEN Raises("TypeError")
               ELSE LET g == GroupBy(d, entity_col, ColIndex(d, metrics[1]), aggregation[1])
                        sort_by == Get(intent, "sort_by", None)
                    IN IF g.raised THEN g
                       ELSE LET sorted == IF sort_by # None /\ HasColumn(g.df, sort_by[1])
                                          THEN SortValues(g.df, sort_by[1], TRUE)
                                          ELSE g.df
                            IN Returns(HeadLimit(sorted, Get(intent, "limit", Some(DefaultLimit))))

extract_by_intent(d, intent) ==
    LET query_type == Get(intent, "query_type", "summary")
    IN CASE query_type = "summary" -> _extract_summary(d, intent)
         [] query_type = "comparison" -> _extract_comparison(d, intent)
         [] query_type = "trend" -> _extract_trend(d, intent)
         [] query_type = "filter" -> _extract_filtered(d, intent)
         [] query_type = "aggregation" -> _extract_aggregation(d, intent)
         [] OTHER -> HeadFallback(d)

\* mutant: the filter narrows the dataset itself instead of a copy
DatasetAfter_InPlace(d, intent) ==
    IF Get(intent, "query_type", "summary") = "filter"
    THEN ApplyFilters(d, Get(intent, "filters", <<>>))
    ELSE d

\* self.df after a call: the strategies only read it, and the filter works on a copy
DatasetAfter(d, intent) == d

(***************************************************************************)
(* ValidationAgent.validate_result (validation_agent.py)                   *)
(***************************************************************************)
\* confidence and quality_score are kept in tenths: 10 is 1.0
FullConfidence == 10
IssuePenalty == 2
DegradedValid == 7
DegradedInvalid == 3

RECURSIVE NullColsRepr(_, _)
\* str of {column: null count} for the columns holding nulls, from column c on
NullColsRepr(df, c) ==
    IF c > NumCols(df) THEN <<>>
    ELSE (IF NullCount(df, c) > 0
          THEN <<df.columns[c], ToString(NullCount(df, c))>> ELSE <<>>)
         \o NullColsRepr(df, c + 1)

\* mutant: the duplicate-row check is missing
Issues_NoDuplicateCheck(result) ==
    (IF NumRows(result) = 0
     THEN << <<"Result is empty - no data returned">> >> ELSE <<>>)
    \o (IF NullTotal(result) > 0
        THEN << <<"Null values found in columns: ">> \o NullColsRepr(result, 1) >>
        ELSE <<>>)

\* the deterministic checks, in the order the code appends them
Issues(result) ==
    (IF NumRows(result) = 0
     THEN << <<"Result is empty - no data returned">> >> ELSE <<>>)
    \o (IF NullTotal(result) > 0
        THEN << <<"Null values found in columns: ">> \o NullColsRepr(result, 1) >>
        ELSE <<>>)
    \o (IF NumRows(result) # DistinctRows(result)
        THEN << <<"Found ", ToString(NumRows(result) - DistinctRows(result)),
                  " duplicate rows">> >>
        ELSE <<>>)

Suggestions(result) ==
    (IF NumRows(result) = 0
     THEN << <<"Review query filters or check if data exists for the criteria">> >>
     ELSE <<>>)
    \o (IF NullTotal(result) > 0
        THEN << <<"Consider handling null values or filtering them out">> >> ELSE <<>>)
    \o (IF NumRows(result) # DistinctRows(result)
        THEN << <<"Consider removing duplicates or adding DISTINCT to query">> >>
        ELSE <<>>)

\* str.lower() on the tokens of the validator's replies
LowerToken(t) ==
    CASE t = "Is_Valid: True" -> "is_valid: true"
      [] t = "IS_VALID: FALSE" -> "is_valid: false"
      [] OTHER -> t

Lower(text) == [i \in 1..Len(text) |-> LowerToken(text[i])]

\* needle in text
Contains(text, needle) == \E i \in 1..Len(text) : text[i] = needle

\* replies of the LLM to the validation prompt
ValidationReplies ==
    { <<"The result answers the question. ", "Is_Valid: True">>,
      <<"is_valid: false", " the result is incomplete">>,
      <<>> }

Clamp01(c) == IF c < 0 THEN 0 ELSE IF c > FullConfidence THEN FullConfidence ELSE c

\* confidence after the LLM answered
LlmConfidence(issues) == Clamp01(FullConfidence - Len(issues) * IssuePenalty)

\* mutant: the degraded confidence is written as a percentage
DegradedConfidence_Percent(is_valid) == IF is_valid THEN 70 ELSE 30

\* confidence after the LLM call failed
DegradedConfidence(is_valid) == IF is_valid THEN DegradedValid ELSE DegradedInvalid

ValidationDict(is_valid, confidence, result) ==
    [is_valid |-> is_valid, confidence |-> confidence, issues |-> Issues(result),
     suggestions |-> Suggestions(result), quality_score |-> confidence,
     row_count |-> NumRows(result), column_count |-> NumCols(result)]

\* mutant: the failure of the LLM call leaves validate_result as an exception
validate_result_Propagates(question, query, result, llm, flt) ==
    IF flt.raised \/ ~llm.ok
    THEN [raised |-> TRUE, msg |-> IF flt.raised THEN flt.msg ELSE llm.content,
          value |-> EmptyDict]
    ELSE [raised |-> FALSE, msg |-> <<>>,
          value |-> ValidationDict(Contains(Lower(llm.content), "is_valid: true")
                                       \/ Len(Issues(result)) = 0,
                                   LlmConfidence(Issues(result)), result)]

\* mutant: the verdict is the LLM's alone
validate_result_TrustsLlm(question, query, result, llm, flt) ==
    IF flt.raised THEN [raised |-> TRUE, msg |-> flt.msg, value |-> EmptyDict]
    ELSE LET issues == Issues(result)
             is_valid == IF llm.ok THEN Contains(Lower(llm.content), "is_valid: true")
                         ELSE Len(issues) = 0
             confidence == IF llm.ok THEN LlmConfidence(issues)
                           ELSE DegradedConfidence(is_valid)
         IN [raised |-> FALSE, msg |-> <<>>,
             value |-> ValidationDict(is_valid, confidence, result)]

\* flt is a failure of the checks and the digest that run before the LLM call,
\* outside the try block: it leaves validate_result as an exception
validate_result(question, query, result, llm, flt) ==
    IF flt.raised THEN [raised |-> TRUE, msg |-> flt.msg, value |-> EmptyDict]
    ELSE LET issues == Issues(result)
             is_valid == IF llm.ok
                         THEN Contains(Lower(llm.content), "is_valid: true") \/ Len(issues) = 0
                         ELSE Len(issues) = 0
             confidence == IF llm.ok THEN LlmConfidence(issues)
                           ELSE DegradedConfidence(is_valid)
         IN [raised |-> FALSE, msg |-> <<>>,
             value |-> ValidationDict(is_valid, confidence, result)]

(***************************************************************************)
(* SynthesisAgent.generate_summary (synthesis_agent.py)                    *)
(***************************************************************************)
\* data[col].sum(): nulls are skipped
ColumnSum(df, c) ==
    SumOver([r \in 1..NumRows(df) |-> IF IsNullCell(df, r, c) THEN 0 ELSE df.rows[r][c]],
            1..NumRows(df))

\* the number of values data[col].mean() averages over
ColumnCount(df, c) == NumRows(df) - NullCount(df, c)

\* the mean as text: the exact quotient, written sum/count
MeanText(df, c) ==
    IF ColumnCount(df, c) = 0 THEN <<"nan">>
    ELSE <<ToString(ColumnSum(df, c)), "/", ToString(ColumnCount(df, c))>>

RECURSIVE KeyStatistics(_, _)
\* one line per numeric column, from column c on
KeyStatistics(df, c) ==
    IF c > NumCols(df) THEN <<>>
    ELSE (IF df.types[c] = "number"
          THEN <<"  ", df.columns[c], ": Total = ", ToString(ColumnSum(df, c)),
                 ", Average = ">> \o MeanText(df, c)
          ELSE <<>>)
         \o KeyStatistics(df, c + 1)

HasNumeric(df) == \E c \in 1..NumCols(df) : df.types[c] = "number"

CellText(df, r, c) ==
    IF IsNullCell(df, r, c) THEN "NaN"
    ELSE IF df.types[c] = "number" THEN ToString(df.rows[r][c]) ELSE df.rows[r][c]

RECURSIVE RowsText(_, _)
\* df.to_string(index=False), cell by cell, from row r on
RowsText(df, r) ==
    IF r > NumRows(df) THEN <<>>
    ELSE [c \in 1..NumCols(df) |-> CellText(df, r, c)] \o RowsText(df, r + 1)

_fallback_summary(question, data, validation) ==
    <<"Analysis Results for: ">> \o question
    \o <<"Data Summary:", "  - Total records: ", ToString(NumRows(data)), "  - Columns: ">>
    \o data.columns
    \o (IF NumRows(data) > 0
        THEN <<"Sample Data:">> \o data.columns \o RowsText(DfHead(data, 5), 1)
             \o (IF HasNumeric(data)
                 THEN <<"Key Statistics:">> \o KeyStatistics(data, 1) ELSE <<>>)
        ELSE <<>>)

\* replies of the LLM to the summary prompt; a reply may be the empty text
SummaryReplies == { <<"Sales are led by the North region.">>, <<>> }

\* whether the LLM is reached: the digest and the validation block are built first
SummaryLlmCalled(flt) == ~(flt.raised /\ flt.at = "call")

\* flt is a failure outside the try block: of the digest and validation formatting
\* before the LLM call ("call"), or of _fallback_summary in the except branch
\* ("fallback"); either leaves generate_summary as an exception
generate_summary(question, data, validation, llm, flt) ==
    IF ~SummaryLlmCalled(flt) THEN [raised |-> TRUE, msg |-> flt.msg, text |-> <<>>]
    ELSE IF llm.ok THEN [raised |-> FALSE, msg |-> <<>>, text |-> llm.content]
    ELSE IF flt.raised THEN [raised |-> TRUE, msg |-> flt.msg, text |-> <<>>]
    ELSE [raised |-> FALSE, msg |-> <<>>,
          text |-> _fallback_summary(question, data, validation)]

(***************************************************************************)
(* RetailInsightsOrchestrator (orchestrator.py)                            *)
(*                                                                         *)
(* pc names the workflow position by the state it is in: ResolvingIntent   *)
(* (node query_resolution), Extracting (data_extraction), Validating       *)
(* (validation), Synthesizing (synthesis), Done (END reached, the final    *)
(* state is back in process_query), Faulted (workflow.invoke raised).      *)
(***************************************************************************)
Stages == <<"ResolvingIntent", "Extracting", "Validating", "Synthesizing">>
StageSet == { Stages[i] : i \in 1..Len(Stages) }

EntryPoint == "ResolvingIntent"

\* mutant: the edge out of the validation node is missing
StageAfter_MissingEdge(s) ==
    CASE s = "ResolvingIntent" -> "Extracting"
      [] s = "Extracting" -> "Validating"
      [] s = "Validating" -> "Halted"
      [] s = "Synthesizing" -> "Done"

\* mutant: an extraction that cannot run ends the workflow
StageAfter_AbortOnFailure(s) ==
    CASE s = "ResolvingIntent" -> "Extracting"
      [] s = "Extracting" -> IF state.sql_query = <<>> THEN "Done" ELSE "Validating"
      [] s = "Validating" -> "Synthesizing"
      [] s = "Synthesizing" -> "Done"

\* the edges of the compiled graph
StageAfter(s) ==
    CASE s = "ResolvingIntent" -> "Extracting"
      [] s = "Extracting" -> "Validating"
      [] s = "Validating" -> "Synthesizing"
      [] s = "Synthesizing" -> "Done"

InitialState(question) ==
    [question |-> question, query_intent |-> EmptyDict, sql_query |-> <<>>,
     extracted_data |-> EmptyDataFrame, validation_result |-> EmptyDict,
     final_answer |-> <<>>, messages |-> <<>>, error |-> <<>>]

\* mutant: messages has no reducer, the value written last wins
Reduce_LastValue(channels, update) == update

\* how the workflow folds a node's returned record into its channels: messages is
\* annotated with operator.add, every other key keeps the value written last
Reduce(channels, update) ==
    [update EXCEPT !.messages = channels.messages \o update.messages]

\* the except branch of _query_resolution_node
ResolutionFailure(st, msg) ==
    [st EXCEPT !.error = <<"Query resolution failed: ">> \o msg,
               !.messages = << <<"Error in query resolution: ">> \o msg >>]

\* flt is an exception raised by the node's own statements around the two resolver
\* calls (neither resolve_query nor generate_sql lets one out)
_query_resolution_node(st, chain, llm, flt) ==
    IF flt.raised THEN ResolutionFailure(st, flt.msg)
    ELSE LET intent == resolve_query(st.question, chain)
             sql_query == generate_sql(st.question, llm, DefaultTable)
         IN [st EXCEPT !.query_intent = intent,
                       !.sql_query = sql_query,
                       !.messages = << <<"Query resolved: ", intent.query_type>> >>]

\* mutant: the fallback is the result of the last query that succeeded
ExtractionFailure_Stale(st, msg) ==
    [st EXCEPT !.error = <<"Data extraction failed: ">> \o msg,
               !.messages = << <<"Error in data extraction: ">> \o msg >>,
               !.extracted_data = IF last_result = None THEN EmptyDataFrame
                                  ELSE last_result[1]]

\* mutant: the except branch also resets the SQL text
ExtractionFailure_DropsSql(st, msg) ==
    [st EXCEPT !.error = <<"Data extraction failed: ">> \o msg,
               !.messages = << <<"Error in data extraction: ">> \o msg >>,
               !.extracted_data = EmptyDataFrame,
               !.sql_query = <<>>]

\* the except branch of _data_extraction_node
ExtractionFailure(st, msg) ==
    [st EXCEPT !.error = <<"Data extraction failed: ">> \o msg,
               !.messages = << <<"Error in data extraction: ">> \o msg >>,
               !.extracted_data = EmptyDataFrame]

\* whether the node reaches execute_sql
EngineCalled(st) == st.sql_query # <<>>

\* mutant: a filter intent cuts the extracted relation to its first row
_data_extraction_node_ByIntent(st, eng) ==
    IF ~EngineCalled(st) THEN ExtractionFailure(st, <<"No SQL query generated">>)
    ELSE LET result == execute_sql(st.sql_query, eng)
             df == IF st.query_intent # EmptyDict /\ st.query_intent.query_type = "filter"
                   THEN DfHead(result.df, 1) ELSE result.df
         IN IF result.raised THEN ExtractionFailure(st, result.msg)
            ELSE [st EXCEPT !.extracted_data = df,
                            !.messages = << <<"Extracted ", ToString(NumRows(df)),
                                              " rows">> >>]

_data_extraction_node(st, eng) ==
    IF ~EngineCalled(st) THEN ExtractionFailure(st, <<"No SQL query generated">>)
    ELSE LET result == execute_sql(st.sql_query, eng)
         IN IF result.raised THEN ExtractionFailure(st, result.msg)
            ELSE [st EXCEPT !.extracted_data = result.df,
                            !.messages = << <<"Extracted ", ToString(NumRows(result.df)),
                                              " rows">> >>]

\* mutant: the substitute carries the validator's degraded confidence
SyntheticValidation_Degraded(msg) ==
    [is_valid |-> FALSE, confidence |-> DegradedInvalid,
     quality_score |-> DegradedInvalid, issues |-> <<msg>>]

\* the validation result the orchestrator substitutes when the validator raises
SyntheticValidation(msg) ==
    [is_valid |-> FALSE, confidence |-> 0, quality_score |-> 0, issues |-> <<msg>>]

\* the except branch of _validation_node
ValidationFailure(st, msg) ==
    [st EXCEPT !.error = <<"Validation failed: ">> \o msg,
               !.messages = << <<"Error in validation: ">> \o msg >>,
               !.validation_result = SyntheticValidation(msg)]

BoolText(b) == IF b THEN "True" ELSE "False"

\* a fraction kept in tenths, formatted with .2%
PercentText(tenths) == <<ToString(tenths * 10), ".00%">>

_validation_node(st, llm, flt) ==
    LET v == validate_result(st.question, st.sql_query, st.extracted_data, llm, flt)
    IN IF v.raised THEN ValidationFailure(st, v.msg)
       ELSE [st EXCEPT !.validation_result = v.value,
                       !.messages = << <<"Validation complete: Valid=",
                                         BoolText(v.value.is_valid), ", Quality=">>
                                       \o PercentText(v.value.quality_score) >>]

NoDataAnswer ==
    <<"I couldn't find any data to answer your question. Please try rephrasing or check if the data exists.">>

\* mutant: the except branch leaves the answer unset
SynthesisFailure_NoAnswer(st, msg) ==
    [st EXCEPT !.error = <<"Synthesis failed: ">> \o msg,
               !.messages = << <<"Error in synthesis: ">> \o msg >>]

\* the except branch of _synthesis_node
SynthesisFailure(st, msg) ==
    [st EXCEPT !.error = <<"Synthesis failed: ">> \o msg,
               !.messages = << <<"Error in synthesis: ">> \o msg >>,
               !.final_answer = <<"I encountered an error while generating the answer: ">>
                                \o msg]

\* mutant: the synthesizer is called whatever the relation holds
SynthesizerCalled_Always(st) == TRUE

\* whether the node calls the synthesizer
SynthesizerCalled(st) == NumRows(st.extracted_data) > 0

\* mutant: a successful synthesis resets the error
_synthesis_node_ClearsError(st, llm, flt) ==
    IF SynthesizerCalled(st)
    THEN LET a == generate_summary(st.question, st.extracted_data,
                                   st.validation_result, llm, flt)
         IN IF a.raised THEN SynthesisFailure(st, a.msg)
            ELSE [st EXCEPT !.final_answer = a.text,
                            !.messages = << <<"Answer generated successfully">> >>,
                            !.error = <<>>]
    ELSE [st EXCEPT !.final_answer = NoDataAnswer,
                    !.messages = << <<"Answer generated successfully">> >>,
                    !.error = <<>>]

_synthesis_node(st, llm, flt) ==
    IF SynthesizerCalled(st)
    THEN LET a == generate_summary(st.question, st.extracted_data,
                                   st.validation_result, llm, flt)
         IN IF a.raised THEN SynthesisFailure(st, a.msg)
            ELSE [st EXCEPT !.final_answer = a.text,
                            !.messages = << <<"Answer generated successfully">> >>]
    ELSE [st EXCEPT !.final_answer = NoDataAnswer,
                    !.messages = << <<"Answer generated successfully">> >>]

\* the record process_query returns when the workflow came back
Projection(question, final_state) ==
    [question |-> question, answer |-> final_state.final_answer,
     data |-> final_state.extracted_data, validation |-> final_state.validation_result,
     sql_query |-> final_state.sql_query, messages |-> final_state.messages,
     error |-> final_state.error]

\* mutant: the fault response hands out the relation extracted so far
FaultResponse_PartialData(question, msg) ==
    [question |-> question,
     answer |-> <<"An error occurred while processing your question: ">> \o msg,
     data |-> state.extracted_data, validation |-> EmptyDict, sql_query |-> <<>>,
     messages |-> <<>>, error |-> msg]

\* the record process_query returns when workflow.invoke raised
FaultResponse(question, msg) ==
    [question |-> question,
     answer |-> <<"An error occurred while processing your question: ">> \o msg,
     data |-> EmptyDataFrame, validation |-> EmptyDict, sql_query |-> <<>>,
     messages |-> <<>>, error |-> msg]

(***************************************************************************)
(* The state machine                                                       *)
(***************************************************************************)
NoResponse == <<>>

\* what the collaborators did in this call: each LLM and engine call ("none" when
\* it was not made), whether a component call raised or returned, and whether an
\* exception other than a failed LLM call arose inside a component
NoCalls ==
    [intentLLM |-> "none", sqlLLM |-> "none", engine |-> "none", validator |-> "none",
     validationLLM |-> "none", synthesizer |-> "none", synthesisLLM |-> "none",
     resolverFault |-> FALSE, validatorFault |-> FALSE, synthesizerFault |-> FALSE]

\* the record a node returned was written by its except branch
WroteError(update) ==
    update.messages[1][1] \in {"Error in query resolution: ", "Error in data extraction: ",
                               "Error in validation: ", "Error in synthesis: "}

\* the validator's LLM has not been called
NoReply == [ok |-> FALSE, content |-> <<"(not called)">>]

NothingReceived ==
    [validating |-> EmptyDataFrame, validationReply |-> NoReply,
     synthesizing |-> EmptyDataFrame, synthValidation |-> EmptyDict]

Outcome(ok) == IF ok THEN "ok" ELSE "fail"

\* generate_summary has not been called
NoOverall == [active |-> FALSE, returned |-> FALSE, result |-> <<>>]

\* the question generate_summary asks
SummaryQuestion ==
    <<"Provide a comprehensive summary of the retail sales data, including key metrics, trends, and insights.">>

\* data_loader.get_summary_stats(): the statistics, or ValueError when the loader
\* holds no dataset
StatsOutcomes ==
    { [ok |-> TRUE, msg |-> <<>>], [ok |-> FALSE, msg |-> <<"No data loaded">>] }

\* the except branch of generate_summary
SummaryFailure(msg) ==
    [active |-> FALSE, returned |-> TRUE, result |-> <<"Error generating summary: ">> \o msg]

\* extract_by_intent has not been called
NoCall == [called |-> FALSE, intent |-> DefaultIntent, out |-> Returns(EmptyDataFrame)]

\* generate_summary returns result["answer"] as soon as its process_query call
\* has returned; a call of process_query made by anyone else leaves it alone
OverallAfter(o, result) ==
    IF o.active THEN [active |-> FALSE, returned |-> TRUE, result |-> result.answer]
    ELSE o

Init ==
    /\ pc = "Idle"
    /\ state = EmptyDict
    /\ response = NoResponse
    /\ last_query = None
    /\ last_result = None
    /\ ran = <<>>
    /\ caught = {}
    /\ calls = NoCalls
    /\ recv = NothingReceived
    /\ fault = NoFault
    /\ self_df = SampleData
    /\ call = NoCall
    /\ first = NoCall
    /\ overall = NoOverall

\* process_query is entered: a fresh record, the workflow at its entry point
Process(question) ==
    /\ pc = "Idle" \/ response # NoResponse
    /\ pc' = EntryPoint
    /\ state' = InitialState(question)
    /\ response' = NoResponse
    /\ ran' = <<>>
    /\ caught' = {}
    /\ calls' = NoCalls
    /\ recv' = NothingReceived
    /\ fault' = NoFault
    /\ overall' = NoOverall
    /\ UNCHANGED <<last_query, last_result>>
    /\ UNCHANGED <<self_df, call, first>>

Resolve ==
    /\ pc = "ResolvingIntent"
    /\ \E chain \in IntentChainOutcomes, llm \in LlmOutcomes(SqlReplies), flt \in Faults :
          LET update == _query_resolution_node(state, chain, llm, flt)
          IN /\ state' = Reduce(state, update)
             /\ caught' = IF WroteError(update) THEN caught \cup {pc} ELSE caught
             /\ calls' = IF flt.raised THEN [calls EXCEPT !.resolverFault = TRUE]
                         ELSE [calls EXCEPT !.intentLLM = Outcome(chain.ok),
                                            !.sqlLLM = Outcome(llm.ok)]
    /\ pc' = StageAfter(pc)
    /\ ran' = Append(ran, pc)
    /\ UNCHANGED <<response, last_query, last_result, recv, fault>>
    /\ UNCHANGED <<self_df, call, first, overall>>

Extract ==
    /\ pc = "Extracting"
    /\ \E eng \in EngineOutcomes :
          /\ state' = Reduce(state, _data_extraction_node(state, eng))
          /\ caught' = IF WroteError(_data_extraction_node(state, eng))
                       THEN caught \cup {pc} ELSE caught
          /\ calls' = IF EngineCalled(state)
                      THEN [calls EXCEPT !.engine = Outcome(eng.ok)] ELSE calls
          /\ last_query' = IF EngineCalled(state)
                           THEN LastQueryAfter(state.sql_query, eng, last_query)
                           ELSE last_query
          /\ last_result' = IF EngineCalled(state)
                            THEN LastResultAfter(eng, last_result) ELSE last_result
    /\ pc' = StageAfter(pc)
    /\ ran' = Append(ran, pc)
    /\ UNCHANGED <<response, recv, fault>>
    /\ UNCHANGED <<self_df, call, first, overall>>

Validate ==
    /\ pc = "Validating"
    /\ \E llm \in LlmOutcomes(ValidationReplies), flt \in Faults :
          LET v == validate_result(state.question, state.sql_query,
                                   state.extracted_data, llm, flt)
              update == _validation_node(state, llm, flt)
          IN /\ state' = Reduce(state, update)
             /\ caught' = IF WroteError(update) THEN caught \cup {pc} ELSE caught
             /\ calls' = [calls EXCEPT
                             !.validator = IF v.raised THEN "raised" ELSE "returned",
                             !.validationLLM = IF flt.raised THEN "none"
                                               ELSE Outcome(llm.ok),
                             !.validatorFault = flt.raised]
             /\ recv' = [recv EXCEPT !.validating = state.extracted_data,
                                     !.validationReply = IF flt.raised THEN NoReply
                                                         ELSE llm]
    /\ pc' = StageAfter(pc)
    /\ ran' = Append(ran, pc)
    /\ UNCHANGED <<response, last_query, last_result, fault>>
    /\ UNCHANGED <<self_df, call, first, overall>>

Synthesize ==
    /\ pc = "Synthesizing"
    /\ \E llm \in LlmOutcomes(SummaryReplies), flt \in SynthFaults :
          LET a == generate_summary(state.question, state.extracted_data,
                                    state.validation_result, llm, flt)
              update == _synthesis_node(state, llm, flt)
          IN /\ state' = Reduce(state, update)
             /\ caught' = IF WroteError(update) THEN caught \cup {pc} ELSE caught
             /\ calls' = IF ~SynthesizerCalled(state) THEN calls
                         ELSE [calls EXCEPT
                                 !.synthesizer = IF a.raised THEN "raised" ELSE "returned",
                                 !.synthesisLLM = IF SummaryLlmCalled(flt)
                                                  THEN Outcome(llm.ok) ELSE "none",
                                 !.synthesizerFault =
                                     flt.raised /\ (flt.at = "call" \/ ~llm.ok)]
    /\ recv' = [recv EXCEPT !.synthesizing = state.extracted_data,
                            !.synthValidation = state.validation_result]
    /\ pc' = StageAfter(pc)
    /\ ran' = Append(ran, pc)
    /\ UNCHANGED <<response, last_query, last_result, fault>>
    /\ UNCHANGED <<self_df, call, first, overall>>

\* generate_summary is entered: the statistics are fetched first, then
\* process_query is called with the fixed question; when the statistics cannot
\* be fetched the except branch answers and process_query is not called
GenerateSummary(stats) ==
    /\ pc = "Idle" \/ response # NoResponse
    /\ IF stats.ok
       THEN /\ pc' = EntryPoint
            /\ state' = InitialState(SummaryQuestion)
            /\ response' = NoResponse
            /\ ran' = <<>>
            /\ caught' = {}
            /\ calls' = NoCalls
            /\ recv' = NothingReceived
            /\ fault' = NoFault
            /\ overall' = [active |-> TRUE, returned |-> FALSE, result |-> <<>>]
       ELSE /\ overall' = SummaryFailure(stats.msg)
            /\ UNCHANGED <<pc, state, response, ran, caught, calls, recv, fault>>
    /\ UNCHANGED <<last_query, last_result>>
    /\ UNCHANGED <<self_df, call, first>>

\* workflow.invoke came back: process_query returns the projection
Respond ==
    /\ pc = "Done"
    /\ response = NoResponse
    /\ response' = Projection(state.question, state)
    /\ overall' = OverallAfter(overall, response')
    /\ UNCHANGED <<pc, state, last_query, last_result, ran, caught, calls, recv, fault>>
    /\ UNCHANGED <<self_df, call, first>>

\* workflow.invoke raised outside the stage handlers: process_query catches it
DriverFault ==
    /\ pc \in StageSet \cup {"Done"}
    /\ response = NoResponse
    /\ \E msg \in ErrorTexts :
          /\ response' = FaultResponse(state.question, msg)
          /\ fault' = [raised |-> TRUE, msg |-> msg, at |-> "driver"]
    /\ pc' = "Faulted"
    /\ overall' = OverallAfter(overall, response')
    /\ UNCHANGED <<state, last_query, last_result, ran, caught, calls, recv>>
    /\ UNCHANGED <<self_df, call, first>>

\* the steps of a running call that the synchronous caller always takes
RunStep == Resolve \/ Extract \/ Validate \/ Synthesize \/ Respond

Next ==
    \/ \E q \in Questions : Process(q)
    \/ \E stats \in StatsOutcomes : GenerateSummary(stats)
    \/ Resolve
    \/ Extract
    \/ Validate
    \/ Synthesize
    \/ Respond
    \/ DriverFault

Spec == Init /\ [][Next]_vars

\* process_query runs synchronously: a call that has started keeps taking steps
FairSpec == Spec /\ WF_vars(RunStep)

(***************************************************************************)
(* The extraction agent called on its own                                  *)
(***************************************************************************)
\* the calls of execute_sql made directly on the agent: one query, answered with a
\* one-row relation or refused
DirectEngineOutcomes ==
    { e \in EngineOutcomes :
        IF e.ok THEN e.df.rows = << <<"North", 1>> >> ELSE e.msg = <<"connection reset">> }

\* an agent constructed with any dataset, and no pipeline call running
ExtractorInit ==
    /\ pc = "Idle"
    /\ state = EmptyDict
    /\ response = NoResponse
    /\ last_query = None
    /\ last_result = None
    /\ ran = <<>>
    /\ caught = {}
    /\ calls = NoCalls
    /\ recv = NothingReceived
    /\ fault = NoFault
    /\ self_df \in Datasets
    /\ call = NoCall
    /\ first = NoCall
    /\ overall = NoOverall

ExtractByIntent(intent) ==
    /\ pc = "Idle"
    /\ LET this == [called |-> TRUE, intent |-> intent,
                    out |-> extract_by_intent(self_df, intent)]
       IN /\ call' = this
          /\ first' = IF first.called THEN first ELSE this
    /\ self_df' = DatasetAfter(self_df, intent)
    /\ UNCHANGED <<pc, state, response, last_query, last_result, ran, caught, calls,
                   recv, fault, overall>>

ExecuteSql(sql_query, eng) ==
    /\ pc = "Idle"
    /\ last_query' = LastQueryAfter(sql_query, eng, last_query)
    /\ last_result' = LastResultAfter(eng, last_result)
    /\ UNCHANGED <<pc, state, response, ran, caught, calls, recv, fault, self_df, call,
                   first, overall>>

ExtractorNext ==
    \/ \E intent \in Intents : ExtractByIntent(intent)
    \/ \E eng \in DirectEngineOutcomes : ExecuteSql(<<PlainSql>>, eng)

ExtractorSpec == ExtractorInit /\ [][ExtractorNext]_vars

(***************************************************************************)
(* Properties                                                              *)
(***************************************************************************)
Returned == response # NoResponse

\* the call came back through the projection, not through the fault handler
ReturnedNormally == Returned /\ ~fault.raised

RanSet == { ran[i] : i \in 1..Len(ran) }

\* a relation is well formed: one type per column, one cell per column in each row
WellFormed(df) ==
    /\ DOMAIN df = {"columns", "types", "rows"}
    /\ Len(df.types) = Len(df.columns)
    /\ \A r \in 1..Len(df.rows) : Len(df.rows[r]) = Len(df.columns)

\* C1: whatever the stages do (each of the resolver, extractor, validator and
\* synthesizer calls returns or raises), a call of process_query that has started
\* comes back with a response record, and unless the driver itself faulted it comes
\* back from Done; it never stays in an intermediate stage.
C1_AlwaysReachesDone ==
    (pc = EntryPoint) ~> (Returned /\ (~fault.raised => pc = "Done"))

\* a call that came back from Done although both resolver LLM calls, the engine
\* and the validator's LLM call failed
C1_Witness ==
    /\ ReturnedNormally
    /\ pc = "Done"
    /\ calls.intentLLM = "fail"
    /\ calls.sqlLLM = "fail"
    /\ calls.engine = "fail"
    /\ calls.validationLLM = "fail"

\* C2: for every question and every collaborator outcome the response carries a
\* non-empty answer and a well-formed relation.
C2_NonEmptyAnswer ==
    Returned => response.answer # <<>> /\ WellFormed(response.data)

\* C3: the stages run in the fixed order ResolvingIntent, Extracting, Validating,
\* Synthesizing, Done, each exactly once: at every position of the workflow the
\* stages run so far are exactly the ones before it, whatever failed earlier.
C3_LinearOrder ==
    /\ pc = "Idle" => ran = <<>>
    /\ \A i \in 1..Len(Stages) : pc = Stages[i] => ran = SubSeq(Stages, 1, i - 1)
    /\ pc = "Done" => ran = Stages
    /\ pc = "Faulted" => \E i \in 0..Len(Stages) : ran = SubSeq(Stages, 1, i)
    /\ pc \in {"Idle", "Done", "Faulted"} \cup StageSet

\* all four stages ran although the engine raised in the second
C3_Witness ==
    pc = "Done" /\ ran = Stages /\ calls.engine = "fail" /\ "Extracting" \in caught

\* the stages whose LLM call failed in this call
LlmFailedStages ==
    (IF calls.intentLLM = "fail" \/ calls.sqlLLM = "fail" THEN {"ResolvingIntent"} ELSE {})
    \cup (IF calls.validationLLM = "fail" THEN {"Validating"} ELSE {})
    \cup (IF calls.synthesisLLM = "fail" THEN {"Synthesizing"} ELSE {})

ErrorPrefix(stage) ==
    CASE stage = "ResolvingIntent" -> "Query resolution failed: "
      [] stage = "Extracting" -> "Data extraction failed: "
      [] stage = "Validating" -> "Validation failed: "
      [] stage = "Synthesizing" -> "Synthesis failed: "

\* the error text was written by the handler of this stage
ErrorIsFor(error, stage) == error # <<>> /\ error[1] = ErrorPrefix(stage)

\* every call of a collaborator other than the LLM returned
OthersWorked ==
    /\ calls.engine = "ok"
    /\ ~calls.resolverFault
    /\ ~calls.validatorFault
    /\ ~calls.synthesizerFault

\* C4 as stated: when the LLM fails in exactly one stage, the response has an
\* answer and its error field is populated for that stage and only for it.
C4_ErrorPopulatedForFailedStage ==
    (ReturnedNormally /\ Cardinality(LlmFailedStages) = 1 /\ OthersWorked) =>
        /\ "answer" \in DOMAIN response
        /\ \A s \in LlmFailedStages : ErrorIsFor(response.error, s)

\* C4 amended: when the LLM fails in exactly one stage, the call still comes back
\* from Done with an answer, and the component's own fallback absorbs the failure:
\* the error field is populated only when a stage handler caught an exception, and
\* then for such a stage; the LLM failure alone leaves it empty.
C4_LlmFailureAbsorbed ==
    (ReturnedNormally /\ Cardinality(LlmFailedStages) = 1) =>
        /\ pc = "Done"
        /\ "answer" \in DOMAIN response
        /\ OthersWorked => response.error = <<>> /\ caught = {}
        /\ (response.error = <<>>) <=> (caught = {})
        /\ \A s \in StageSet : ErrorIsFor(response.error, s) => s \in caught

\* the LLM failed in one stage only, nothing else failed, and error stayed empty
C4_Witness ==
    /\ ReturnedNormally
    /\ OthersWorked
    /\ LlmFailedStages = {"Validating"}
    /\ caught = {}
    /\ response.error = <<>>
    /\ response.answer # <<>>

\* the Extracting stage failed: the engine raised, or there was no SQL to run
ExtractionFailed ==
    /\ "Extracting" \in RanSet
    /\ calls.engine = "fail" \/ state.sql_query = <<>>

\* C5: if the Extracting stage fails (the engine raises, or the SQL text is empty and
\* the engine is not called), the stage records 'Data extraction failed: ...', the
\* empty relation is what Validating, Synthesizing and the response's data field
\* receive, and the run continues.
C5_ExtractionFailureForwardsEmpty ==
    /\ ExtractionFailed =>
          /\ state.extracted_data = EmptyDataFrame
          /\ state.error # <<>>
          /\ pc = "Validating" =>
                /\ ErrorIsFor(state.error, "Extracting")
                /\ state.messages[Len(state.messages)][1] = "Error in data extraction: "
          /\ "Validating" \in RanSet => recv.validating = EmptyDataFrame
          /\ "Synthesizing" \in RanSet => recv.synthesizing = EmptyDataFrame
          /\ Returned => response.data = EmptyDataFrame
          /\ pc \in {"Validating", "Synthesizing", "Done", "Faulted"}
    /\ ("Extracting" \in RanSet /\ state.sql_query = <<>>) => calls.engine = "none"

\* the engine raised after an earlier call had stored a non-empty result, and the
\* failed call came back
C5_Witness ==
    /\ ReturnedNormally
    /\ calls.engine = "fail"
    /\ last_result # None
    /\ response.data = EmptyDataFrame
    /\ ErrorIsFor(response.error, "Extracting")

\* C6: if the validator raises, the validation result becomes the synthetic value
\* with is_valid = false, confidence = 0, quality_score = 0 and issues = [message],
\* the error field is set, and Synthesizing still runs, with that value.
C6_ValidatorFailureSynthetic ==
    calls.validator = "raised" =>
        LET v == state.validation_result
        IN /\ DOMAIN v = {"is_valid", "confidence", "quality_score", "issues"}
           /\ v.is_valid = FALSE
           /\ v.confidence = 0
           /\ v.quality_score = 0
           /\ Len(v.issues) = 1
           /\ v.issues[1] \in ErrorTexts
           /\ state.error # <<>>
           /\ pc = "Synthesizing" => state.error = <<"Validation failed: ">> \o v.issues[1]
           /\ "Synthesizing" \in RanSet => recv.synthValidation = v
           /\ pc \in {"Synthesizing", "Done", "Faulted"}

\* the validator raised, and the synthesizer was then called with the synthetic value
C6_Witness ==
    /\ calls.validator = "raised"
    /\ calls.synthesizer = "returned"
    /\ recv.synthValidation = SyntheticValidation(<<"connection reset">>)
    /\ ReturnedNormally

ApologyPrefix == "I encountered an error while generating the answer: "

\* C7: if the synthesizer raises, the final answer is the templated apology (not
\* empty, holding the failure message), the error field is the synthesis failure,
\* and the run reaches Done with the extraction and validation outputs unchanged.
C7_SynthesisFailureApology ==
    calls.synthesizer = "raised" =>
        /\ state.final_answer # <<>>
        /\ state.final_answer[1] = ApologyPrefix
        /\ Tail(state.final_answer) \in ErrorTexts
        /\ state.error = <<"Synthesis failed: ">> \o Tail(state.final_answer)
        /\ state.extracted_data = recv.synthesizing
        /\ state.validation_result = recv.synthValidation
        /\ pc \in {"Done", "Faulted"}
        /\ ReturnedNormally =>
              /\ response.answer = state.final_answer
              /\ response.error = state.error
              /\ response.data = recv.synthesizing
              /\ response.validation = recv.synthValidation

\* the synthesizer raised while building its fallback, and the call came back
C7_Witness ==
    /\ ReturnedNormally
    /\ calls.synthesizer = "raised"
    /\ calls.synthesisLLM = "fail"
    /\ response.answer = <<ApologyPrefix, "connection reset">>

FaultAnswerPrefix == "An error occurred while processing your question: "

\* C8 as stated: if the workflow driver faults outside the stage handlers, the
\* response's answer equals the fault's message text, with an empty relation and
\* an empty validation result.
C8_AnswerIsFaultMessage ==
    fault.raised =>
        /\ response.answer = fault.msg
        /\ response.data = EmptyDataFrame
        /\ response.validation = EmptyDict

\* C8 amended: if the workflow driver faults outside the stage handlers, the
\* response's answer is the fixed text 'An error occurred while processing your
\* question: ' followed by the fault's message, its error field is the message
\* verbatim, and it carries an empty relation and an empty validation result.
C8_FaultResponse ==
    fault.raised =>
        /\ Returned
        /\ response.answer = <<FaultAnswerPrefix>> \o fault.msg
        /\ response.error = fault.msg
        /\ response.data = EmptyDataFrame
        /\ response.validation = EmptyDict
        /\ response.question = state.question

\* the driver faulted after the extraction stage had stored a non-empty relation
C8_Witness ==
    /\ fault.raised
    /\ fault.msg = <<"connection reset">>
    /\ NumRows(state.extracted_data) > 0
    /\ state.validation_result # EmptyDict

\* the stage that wrote a trace message, read off its text
MessageStage(m) ==
    CASE m[1] \in {"Query resolved: ", "Error in query resolution: "} -> "ResolvingIntent"
      [] m[1] \in {"Extracted ", "Error in data extraction: "} -> "Extracting"
      [] m[1] \in {"Validation complete: Valid=", "Error in validation: "} -> "Validating"
      [] m[1] \in {"Answer generated successfully", "Error in synthesis: "} -> "Synthesizing"
      [] OTHER -> "unknown"

IsPrefix(a, b) == Len(a) <= Len(b) /\ SubSeq(b, 1, Len(a)) = a

InCall == pc \in StageSet \cup {"Done", "Faulted"}

\* the trace holds one message per stage run so far, in stage order
TraceMatchesStages ==
    InCall =>
        /\ Len(state.messages) = Len(ran)
        /\ \A i \in 1..Len(ran) : MessageStage(state.messages[i]) = ran[i]
        /\ pc = "Done" => Len(state.messages) = Len(Stages)
        /\ ReturnedNormally => response.messages = state.messages

\* within a call every step keeps the messages appended earlier
TraceStep ==
    (InCall /\ pc' # EntryPoint) => IsPrefix(state.messages, state'.messages)

\* C9: the trace is append-only: every stage appends exactly one message whether it
\* succeeds or fails, so after the four stages it holds four messages in stage
\* order; no stage removes, replaces or reorders an earlier message; and the trace
\* process_query returns from Done is that full log.
C9_TraceAppendOnly == []TraceMatchesStages /\ [][TraceStep]_vars

\* a returned call whose trace holds the message of a failed stage between the
\* messages of the stages that succeeded
C9_Witness ==
    /\ ReturnedNormally
    /\ Len(response.messages) = 4
    /\ response.messages[1][1] = "Query resolved: "
    /\ response.messages[2][1] = "Error in data extraction: "
    /\ response.messages[3][1] = "Validation complete: Valid="
    /\ response.messages[4][1] = "Answer generated successfully"

\* a value kept in tenths lies in [0, 1]
InUnitInterval(x) == x \in 0..FullConfidence

\* C10: for every input and every stage outcome, the validation result in the
\* response that process_query builds from the finished workflow has a confidence
\* and a quality_score, and both lie in [0, 1].
C10_ScoresInUnitInterval ==
    ReturnedNormally =>
        /\ {"confidence", "quality_score"} \subseteq DOMAIN response.validation
        /\ InUnitInterval(response.validation.confidence)
        /\ InUnitInterval(response.validation.quality_score)

\* a response whose validation found two issues (a null and a duplicate row) with
\* the LLM answering
C10_Witness ==
    /\ ReturnedNormally
    /\ calls.validationLLM = "ok"
    /\ Len(response.validation.issues) = 2
    /\ response.validation.confidence = 6

(***************************************************************************)
(* The validator against its reference                                     *)
(***************************************************************************)
\* the deterministic checks that fire on a relation, stated on its rows
EmptyCheck(d) == d.rows = <<>>
NullCheck(d) ==
    \E r \in 1..Len(d.rows), c \in 1..Len(d.columns) :
        d.rows[r][c] = (IF d.types[c] = "number" THEN NullNum ELSE NullText)
DuplicateCheck(d) == \E i, j \in 1..Len(d.rows) : i < j /\ d.rows[i] = d.rows[j]

ChecksFired(d) ==
    (IF EmptyCheck(d) THEN 1 ELSE 0) + (IF NullCheck(d) THEN 1 ELSE 0)
    + (IF DuplicateCheck(d) THEN 1 ELSE 0)

\* the opening text of the issue of each check that fired, in the order of the checks
ExpectedIssueHeads(d) ==
    (IF EmptyCheck(d) THEN <<"Result is empty - no data returned">> ELSE <<>>)
    \o (IF NullCheck(d) THEN <<"Null values found in columns: ">> ELSE <<>>)
    \o (IF DuplicateCheck(d) THEN <<"Found ">> ELSE <<>>)

\* the reply holds the affirmative marker in some letter case
Affirmed(content) ==
    \E i \in 1..Len(content) : content[i] \in {"is_valid: true", "Is_Valid: True"}

\* 1 - 0.2 n clamped to [0, 1], in tenths
ReferenceConfidence(n) ==
    IF 10 - 2 * n < 0 THEN 0 ELSE IF 10 - 2 * n > 10 THEN 10 ELSE 10 - 2 * n

\* C11: validate_result equals the reference for every relation and LLM outcome,
\* with n the number of deterministic checks that fired (empty, nulls, duplicates):
\* when the LLM responds, is_valid = (marker in the reply) or n = 0 and confidence =
\* clamp(1 - 0.2 n, 0, 1); when the LLM call fails validate_result does not raise,
\* is_valid = (n = 0) and confidence = 0.7 if valid else 0.3; in both cases
\* quality_score = confidence and the issues are exactly the n deterministic ones.
C11_ValidateMatchesReference ==
    /\ calls.validationLLM # "none" => calls.validator = "returned"
    /\ calls.validator = "returned" =>
          LET v == state.validation_result
              d == recv.validating
              n == ChecksFired(d)
              reply == recv.validationReply
          IN /\ calls.validationLLM \in {"ok", "fail"}
             /\ calls.validationLLM = "ok" =>
                   /\ v.is_valid = (Affirmed(reply.content) \/ n = 0)
                   /\ v.confidence = ReferenceConfidence(n)
             /\ calls.validationLLM = "fail" =>
                   /\ v.is_valid = (n = 0)
                   /\ v.confidence = (IF n = 0 THEN 7 ELSE 3)
             /\ v.quality_score = v.confidence
             /\ Len(v.issues) = n
             /\ [i \in 1..n |-> v.issues[i][1]] = ExpectedIssueHeads(d)

\* the LLM affirmed a relation on which two checks fired (a null and a duplicate
\* row): valid, with confidence 0.6
C11_Witness ==
    /\ calls.validator = "returned"
    /\ calls.validationLLM = "ok"
    /\ Affirmed(recv.validationReply.content)
    /\ ChecksFired(recv.validating) = 2
    /\ state.validation_result.is_valid
    /\ state.validation_result.confidence = 6

(***************************************************************************)
(* The components' failure contracts                                       *)
(***************************************************************************)
\* C12: resolve_query never raises: when the LLM provider fails or its output does
\* not parse into a QueryIntent, it returns the one default intent with query_type
\* "summary" and empty entities, metrics and filters, and the resolution node goes
\* on as after a success.
C12_ResolveDefaultsOnFailure ==
    calls.intentLLM = "fail" =>
        /\ state.query_intent =
              [query_type |-> "summary", entities |-> <<>>, metrics |-> <<>>,
               time_period |-> <<>>, filters |-> <<>>, aggregation |-> <<>>,
               sort_by |-> <<>>, limit |-> <<>>, sql_query |-> <<>>]
        /\ state.messages[1] = <<"Query resolved: ", "summary">>
        /\ "ResolvingIntent" \notin caught

\* the intent chain failed while the SQL call worked, and the run finished with
\* the default intent and no error
C12_Witness ==
    /\ ReturnedNormally
    /\ calls.intentLLM = "fail"
    /\ calls.sqlLLM = "ok"
    /\ state.query_intent.query_type = "summary"
    /\ response.error = <<>>

\* C13: generate_sql never raises and always hands the Extracting stage a non-empty
\* SQL text: for every LLM outcome (plain text, fenced text with or without the sql
\* tag, empty or fence-only text, provider failure) the SQL is the reply with the
\* fence stripped or exactly SELECT * FROM <table> LIMIT 10.
C13_SqlNeverEmpty ==
    (pc = "Extracting" /\ calls.sqlLLM # "none") =>
        /\ state.sql_query # <<>>
        /\ calls.sqlLLM = "fail" =>
              state.sql_query = <<"SELECT * FROM ", "sales_data", " LIMIT 10">>
        /\ "ResolvingIntent" \notin caught

\* C14: execute_sql returns the engine's relation on success and lets the engine's
\* exception through to the extraction node on failure, and it is the only
\* component operation that raises to the orchestrator: the resolver, validator and
\* synthesizer operations never do.
C14_OnlyExecuteSqlPropagates ==
    /\ (pc = "Validating" /\ calls.engine = "ok") =>
          /\ last_result = Some(state.extracted_data)
          /\ "Extracting" \notin caught
    /\ (pc = "Validating" /\ calls.engine = "fail") =>
          /\ "Extracting" \in caught
          /\ ErrorIsFor(state.error, "Extracting")
    /\ ~calls.resolverFault => "ResolvingIntent" \notin caught
    /\ calls.validator # "raised"
    /\ calls.synthesizer # "raised"

(***************************************************************************)
(* Extraction by intent                                                    *)
(***************************************************************************)
KnownTypes == {"summary", "comparison", "trend", "filter", "aggregation"}

TypeOf(intent) == IF "query_type" \in DOMAIN intent THEN intent.query_type ELSE "summary"

\* rel is the first min(n, total) rows of the dataset, unmodified and in order
IsFirstRows(rel, d, n) ==
    /\ rel.columns = d.columns
    /\ rel.types = d.types
    /\ Len(rel.rows) = (IF Len(d.rows) < n THEN Len(d.rows) ELSE n)
    /\ \A i \in 1..Len(rel.rows) : rel.rows[i] = d.rows[i]

\* C15: for an intent whose query_type is none of summary, comparison, trend,
\* filter, aggregation, extract_by_intent returns exactly the first min(10,
\* totalRows) rows of the unmodified dataset, in original order.
C15_UnknownTypeFirstRows ==
    (call.called /\ TypeOf(call.intent) \notin KnownTypes) =>
        /\ ~call.out.raised
        /\ IsFirstRows(call.out.df, self_df, 10)

\* an intent of unknown type was served from a dataset of more than ten rows
C15_Witness ==
    /\ call.called
    /\ TypeOf(call.intent) = "ranking"
    /\ Len(self_df.rows) > 10
    /\ Len(call.out.df.rows) = 10

\* the intent names a metric that is no column, or an entity that no column name
\* contains
NamesUnresolved(d, intent) ==
    \/ /\ "metrics" \in DOMAIN intent
       /\ \E i \in 1..Len(intent.metrics) :
             \A c \in 1..Len(d.columns) : d.columns[c] # intent.metrics[i]
    \/ /\ "entities" \in DOMAIN intent
       /\ \E i \in 1..Len(intent.entities) :
             \A c \in 1..Len(d.columns) :
                 ~NameContains(LowerName(d.columns[c]), LowerName(intent.entities[i]))

\* C16: for every query_type, whenever an entity or a metric the intent names
\* cannot be resolved against the dataset's columns, extract_by_intent returns
\* exactly the first 10 rows of the full dataset in original order, never an
\* empty, partial or otherwise shaped result.
C16_UniformFallback ==
    (call.called /\ NamesUnresolved(self_df, call.intent)) =>
        /\ ~call.out.raised
        /\ IsFirstRows(call.out.df, self_df, 10)

\* the rows of the dataset whose column c holds the value v
RowsWith(d, c, v) == { r \in 1..Len(d.rows) : d.rows[r][c] = v }

\* the values a column holds, nulls left out
ValuesOf(d, c) ==
    { d.rows[r][c] : r \in 1..Len(d.rows) }
    \ { IF d.types[c] = "text" THEN NullText ELSE NullNum }

\* the sum of column m over a set of rows, nulls counting as nothing
SumOfRows(d, m, R) ==
    SumOver([r \in R |-> IF d.rows[r][m] = NullNum THEN 0 ELSE d.rows[r][m]], R)

\* the intent's entities resolve to a column and its first metric is a column
ComparisonResolves(d, intent) ==
    /\ TypeOf(intent) = "comparison"
    /\ {"entities", "metrics"} \subseteq DOMAIN intent
    /\ intent.entities # <<>> /\ intent.metrics # <<>>
    /\ EntityColumn(d, intent.entities) # 0
    /\ \E c \in 1..Len(d.columns) : d.columns[c] = intent.metrics[1]

\* C17: for a comparison intent whose entity resolves to a column E and whose first
\* metric M is a dataset column, the result has exactly one row per distinct value
\* of E, each carrying the sum of M over the dataset rows with that value, and the
\* rows are ordered by that sum descending.
C17_ComparisonGroupsAndSorts ==
    (call.called /\ ComparisonResolves(self_df, call.intent)) =>
        LET e == EntityColumn(self_df, call.intent.entities)
            m == CHOOSE c \in 1..Len(self_df.columns) :
                     self_df.columns[c] = call.intent.metrics[1]
            rows == call.out.df.rows
        IN /\ ~call.out.raised
           /\ Len(rows) = Cardinality(ValuesOf(self_df, e))
           /\ { rows[i][1] : i \in 1..Len(rows) } = ValuesOf(self_df, e)
           /\ \A i \in 1..Len(rows) :
                 rows[i][2] = SumOfRows(self_df, m, RowsWith(self_df, e, rows[i][1]))
           /\ \A i \in 1..Len(rows), j \in 1..Len(rows) : i < j => rows[i][2] >= rows[j][2]

\* the limit a filter intent asks for: 100 when it gives none
AskedLimit(intent) ==
    IF "limit" \in DOMAIN intent /\ intent.limit # <<>> THEN intent.limit[1] ELSE 100

\* C18: for a filter intent the result consists of dataset rows that satisfy every
\* equality filter of the intent, in original dataset order, and has at most limit
\* rows, the limit being 100 whenever the intent gives none (also for an intent of
\* the resolver with limit unset).  Filters on columns the dataset lacks are left
\* aside here.
C18_FilterWithinLimit ==
    (call.called /\ TypeOf(call.intent) = "filter") =>
        LET rows == call.out.df.rows
            filters == IF "filters" \in DOMAIN call.intent THEN call.intent.filters ELSE <<>>
        IN /\ ~call.out.raised
           /\ call.out.df.columns = self_df.columns
           /\ \A f \in 1..Len(filters), c \in 1..Len(self_df.columns) :
                 self_df.columns[c] = filters[f][1] =>
                     \A i \in 1..Len(rows) : rows[i][c] = filters[f][2]
           /\ Len(rows) <= AskedLimit(call.intent)
           /\ \A i \in 1..Len(rows) : \E r \in 1..Len(self_df.rows) : rows[i] = self_df.rows[r]

\* a call repeats the intent of the first call
RepeatsFirst == first.called /\ call.called /\ call.intent = first.intent

QuestionStarts == pc = EntryPoint

\* the run record holds the question and nothing else
FreshRecord ==
    /\ state.query_intent = EmptyDict
    /\ state.sql_query = <<>>
    /\ state.extracted_data = EmptyDataFrame
    /\ state.validation_result = EmptyDict
    /\ state.final_answer = <<>>
    /\ state.messages = <<>>
    /\ state.error = None

\* C20 (as stated): when a question starts, no component holds anything that was
\* written while an earlier question was handled; in particular the extraction
\* agent remembers no query and no result.
C20_NothingCrossesQuestions ==
    QuestionStarts => FreshRecord /\ last_query = None /\ last_result = None

\* C20 (amended): when a question starts the run record is fresh, but the
\* extraction agent still holds last_query and last_result of the most recent
\* successful execute_sql: the two are set together, change only in an extraction
\* step whose execution succeeded, and are never cleared, so they cross from one
\* question to the next.
C20_OnlyLastExecutionCrosses ==
    /\ [](QuestionStarts => FreshRecord)
    /\ []((last_query = None) <=> (last_result = None))
    /\ [][ (last_query' # last_query \/ last_result' # last_result) =>
               /\ pc = "Extracting"
               /\ calls'.engine = Outcome(TRUE)
               /\ last_query' = Some(state.sql_query)
               /\ last_result' = Some(state'.extracted_data) ]_vars

\* a second question starts while the extraction agent holds the first one's result
C20_Witness ==
    /\ QuestionStarts
    /\ FreshRecord
    /\ last_query # None
    /\ last_result # None

(***************************************************************************)
(* The synthesizer when its LLM call fails                                 *)
(***************************************************************************)
\* the synthesizer's LLM call was made and failed
SummaryLlmFailed == pc = "Done" /\ calls.synthesisLLM = "fail"

\* C21: generate_summary never raises: when its LLM call fails it returns the
\* templated summary (record count and, per numeric column, total and average)
\* built from the relation it was given, whatever the validation value.
C21_FallbackSummaryOnLlmFailure ==
    SummaryLlmFailed =>
        /\ calls.synthesizer = "returned"
        /\ state.final_answer =
               _fallback_summary(state.question, recv.synthesizing, recv.synthValidation)

(***************************************************************************)
(* The overall summary                                                     *)
(***************************************************************************)
\* C22: generate_summary returns exactly the answer of one process_query call for
\* the fixed question: it never ends without such a call having returned, and its
\* result depends on nothing else.
C22_SummaryIsProcessAnswer ==
    overall.returned =>
        /\ Returned
        /\ response.question = SummaryQuestion
        /\ overall.result = response.answer

(***************************************************************************)
(* Which column the strategies group by                                    *)
(***************************************************************************)
\* a comparison or aggregation call gave a grouped result: the grouping column and
\* the metric, where the fallback would have all the columns of the dataset
Grouped ==
    /\ call.called
    /\ TypeOf(call.intent) \in {"comparison", "aggregation"}
    /\ ~call.out.raised
    /\ Len(call.out.df.columns) = 2
    /\ Len(self_df.columns) # 2

\* the column of the dataset the result is grouped by
GroupingColumn == CHOOSE c \in 1..Len(self_df.columns) :
                      self_df.columns[c] = call.out.df.columns[1]

\* the name of column c contains the entity, case-insensitively
Matches(c, entity) == NameContains(LowerName(self_df.columns[c]), LowerName(entity))

\* C23 (as stated): the grouping column of a comparison or aggregation result is
\* one whose name contains entities[0] case-insensitively; later entities never
\* decide it.
C23_FirstEntityDecides ==
    Grouped => Matches(GroupingColumn, call.intent.entities[1])

\* C23 (amended): the grouping column of a comparison or aggregation result is
\* the first column, in the dataset's column order, whose name contains any of the
\* intent's entities case-insensitively; the order of the entities plays no part.
C23_FirstMatchingColumnDecides ==
    Grouped =>
        /\ \E i \in 1..Len(call.intent.entities) : Matches(GroupingColumn, call.intent.entities[i])
        /\ \A c \in 1..(GroupingColumn - 1), i \in 1..Len(call.intent.entities) :
              ~Matches(c, call.intent.entities[i])

\* entities category and region, in that order, were grouped by Region, the first
\* column of the dataset
C23_Witness ==
    /\ Grouped
    /\ call.intent.entities = <<"category", "region">>
    /\ call.out.df.columns[1] = "Region"
    /\ Len(call.out.df.rows) = 2

\* a trend call gave a grouped result
TrendGrouped ==
    /\ call.called
    /\ TypeOf(call.intent) = "trend"
    /\ ~call.out.raised
    /\ Len(call.out.df.columns) = 2
    /\ Len(self_df.columns) # 2

\* column c is of datetime type, or has date in its name
DateLike(c) ==
    self_df.types[c] = "datetime" \/ NameContains(LowerName(self_df.columns[c]), "date")

\* C24 (as stated): when the dataset has a column of datetime type, a trend result
\* is grouped by a column of that type; a column merely named like a date is used
\* only when there is none.
C24_DateColumnByTypeFirst ==
    (TrendGrouped /\ \E c \in 1..Len(self_df.columns) : self_df.types[c] = "datetime") =>
        self_df.types[GroupingColumn] = "datetime"

\* C24 (amended): a trend result is grouped by the first column, in the dataset's
\* column order, that is of datetime type or has date in its name, whichever of
\* the two tests it passes; it has one row per value of that column with the sum
\* of the first metric, sorted ascending by that column.
C24_FirstDateLikeColumn ==
    TrendGrouped =>
        LET rows == call.out.df.rows
            m == CHOOSE c \in 1..Len(self_df.columns) :
                     self_df.columns[c] = call.intent.metrics[1]
        IN /\ DateLike(GroupingColumn)
           /\ \A c \in 1..(GroupingColumn - 1) : ~DateLike(c)
           /\ { rows[i][1] : i \in 1..Len(rows) } = ValuesOf(self_df, GroupingColumn)
           /\ \A i \in 1..Len(rows) :
                 rows[i][2] = SumOfRows(self_df, m, RowsWith(self_df, GroupingColumn, rows[i][1]))
           /\ \A i \in 1..Len(rows), j \in 1..Len(rows) :
                 i < j => SortRank(self_df.types[GroupingColumn], rows[i][1])
                          < SortRank(self_df.types[GroupingColumn], rows[j][1])

\* a dataset with a text column Update before a datetime column Shipped was
\* grouped by Update
C24_Witness ==
    /\ TrendGrouped
    /\ self_df.columns = ShipmentColumns
    /\ call.out.df.columns[1] = "Update"
    /\ Len(call.out.df.rows) = 2

(***************************************************************************)
(* The named aggregations                                                  *)
(***************************************************************************)
AggregationNames == {"sum", "avg", "max", "min", "count"}

\* an aggregation intent that names one of the aggregations, an entity some
\* column matches, and a first metric that is a column
AggregationResolves ==
    /\ call.called
    /\ TypeOf(call.intent) = "aggregation"
    /\ {"entities", "metrics", "aggregation"} \subseteq DOMAIN call.intent
    /\ call.intent.aggregation # None
    /\ call.intent.aggregation[1] \in AggregationNames
    /\ \E c \in 1..Len(self_df.columns), i \in 1..Len(call.intent.entities) :
          Matches(c, call.intent.entities[i])
    /\ call.intent.metrics # <<>>
    /\ \E c \in 1..Len(self_df.columns) : self_df.columns[c] = call.intent.metrics[1]

\* the number of rows asked for: all of them when the intent gives no limit
RowsAsked(intent, n) ==
    IF "limit" \in DOMAIN intent /\ intent.limit # None /\ intent.limit[1] < n
    THEN intent.limit[1] ELSE n

\* C25: for an aggregation intent with a resolvable entity column and first
\* metric, and each aggregation name among sum, avg, max, min, count,
\* extract_by_intent returns a relation with one row per distinct entity value
\* (holding that aggregate of the first metric), truncated to limit.
C25_NamedAggregations ==
    AggregationResolves =>
        LET rows == call.out.df.rows
        IN /\ ~call.out.raised
           /\ Len(call.out.df.columns) = 2
           /\ \A i \in 1..Len(rows) : rows[i][1] \in ValuesOf(self_df, GroupingColumn)
           /\ \A i \in 1..Len(rows), j \in 1..Len(rows) : i # j => rows[i][1] # rows[j][1]
           /\ Len(rows) = RowsAsked(call.intent,
                                    Cardinality(ValuesOf(self_df, GroupingColumn)))

(***************************************************************************)
(* What each stage writes in the run record                                *)
(***************************************************************************)
\* the keys of the run record that keep their value in this step
Keeps(keys) == \A k \in keys : state'[k] = state[k]

\* C26: besides the trace and the error, each stage writes only its own output:
\* query_intent and sql_query only in the resolution stage, extracted_data only in
\* the extraction stage, validation_result only in the validation stage,
\* final_answer only in the synthesis stage, and question never.
C26_StagesWriteOwnOutput ==
    [][ /\ pc = "ResolvingIntent" =>
              Keeps({"question", "extracted_data", "validation_result", "final_answer"})
        /\ pc = "Extracting" =>
              Keeps({"question", "query_intent", "sql_query", "validation_result",
                     "final_answer"})
        /\ pc = "Validating" =>
              Keeps({"question", "query_intent", "sql_query", "extracted_data",
                     "final_answer"})
        /\ pc = "Synthesizing" =>
              Keeps({"question", "query_intent", "sql_query", "extracted_data",
                     "validation_result"}) ]_vars

\* a run in which the extraction and the validation failed ends with the
\* resolver's intent and SQL and the substituted validation still in the record
C26_Witness ==
    /\ pc = "Done"
    /\ {"Extracting", "Validating"} \subseteq caught
    /\ state.sql_query = <<PlainSql>>
    /\ state.query_intent # EmptyDict
    /\ state.validation_result # EmptyDict

(***************************************************************************)
(* The intent and the data                                                 *)
(***************************************************************************)
\* the values the query_intent channel can hold
IntentValues == ParsedIntents \cup {DefaultIntent, EmptyDict}

\* the run record with another intent in it
WithIntent(other) == [state EXCEPT !.query_intent = other]

\* C27: the relation process_query returns is determined by the SQL text alone
\* (through what the engine answers to it): whatever intent the record holds, the
\* extraction node extracts the same relation, the validation node validates the
\* same relation with the same verdict, the synthesis node gives the same answer,
\* and the relation returned is the engine's relation for the SQL, or the empty
\* one when the engine was not called or refused.
C27_IntentNeverInfluencesData ==
    /\ pc = "Extracting" =>
          \A other \in IntentValues, eng \in EngineOutcomes :
              _data_extraction_node(WithIntent(other), eng).extracted_data
                  = _data_extraction_node(state, eng).extracted_data
    /\ pc = "Validating" =>
          \A other \in IntentValues, llm \in LlmOutcomes(ValidationReplies), flt \in Faults :
              /\ _validation_node(WithIntent(other), llm, flt).validation_result
                     = _validation_node(state, llm, flt).validation_result
              /\ _validation_node(WithIntent(other), llm, flt).extracted_data
                     = state.extracted_data
    /\ pc = "Synthesizing" =>
          \A other \in IntentValues, llm \in LlmOutcomes(SummaryReplies), flt \in SynthFaults :
              /\ _synthesis_node(WithIntent(other), llm, flt).final_answer
                     = _synthesis_node(state, llm, flt).final_answer
              /\ _synthesis_node(WithIntent(other), llm, flt).extracted_data
                     = state.extracted_data
    /\ ReturnedNormally =>
          response.data = IF calls.engine = "ok" THEN last_result[1] ELSE EmptyDataFrame

\* a filter intent was resolved and the call returned both rows the engine gave
\* for the SQL
C27_Witness ==
    /\ ReturnedNormally
    /\ calls.engine = "ok"
    /\ response.sql_query = <<PlainSql>>
    /\ state.query_intent # EmptyDict
    /\ state.query_intent.query_type = "filter"
    /\ Len(response.data.rows) = 2

(***************************************************************************)
(* The error field                                                         *)
(***************************************************************************)
\* the position of a stage in the workflow
StageIndex(s) == CHOOSE i \in 1..Len(Stages) : Stages[i] = s

\* the stage that caught a failure last
LatestCaught == CHOOSE s \in caught : \A t \in caught : StageIndex(t) <= StageIndex(s)

\* C28: the error of a run is one string, written by whichever stage handler
\* caught a failure last: it is empty in the response exactly when no handler
\* caught anything, it carries the message of the latest failing stage only, and a
\* stage that succeeds leaves it as it was.
C28_ErrorIsLastWriter ==
    /\ [](ReturnedNormally =>
            /\ (response.error = <<>>) <=> (caught = {})
            /\ caught # {} => ErrorIsFor(response.error, LatestCaught))
    /\ [][ (pc \in StageSet /\ pc' # "Faulted") =>
              IF caught' = caught THEN state'.error = state.error
              ELSE ErrorIsFor(state'.error, pc) ]_vars

\* the validator raised with one message and then the synthesizer with another:
\* the response carries the synthesis failure only
C28_Witness ==
    /\ ReturnedNormally
    /\ caught = {"Validating", "Synthesizing"}
    /\ response.validation = SyntheticValidation(<<>>)
    /\ response.error = <<"Synthesis failed: ", "connection reset">>

(***************************************************************************)
(* Synthesis of an empty relation                                          *)
(***************************************************************************)
\* the synthesis node has run in this call
Synthesized == "Synthesizing" \in RanSet

\* C29: when the relation that reaches the synthesis stage has no rows, the final
\* answer is the fixed no-data message, neither the synthesizer nor its LLM is
\* called, and the stage leaves the error as it found it; the synthesizer is called
\* only for a relation with at least one row.
C29_EmptyRelationFixedAnswer ==
    /\ []((Synthesized /\ recv.synthesizing.rows = <<>>) =>
            /\ state.final_answer = NoDataAnswer
            /\ calls.synthesizer = "none"
            /\ calls.synthesisLLM = "none"
            /\ "Synthesizing" \notin caught)
    /\ []((Synthesized /\ calls.synthesizer # "none") => recv.synthesizing.rows # <<>>)
    /\ [][ (pc = "Synthesizing" /\ pc' = "Done" /\ state.extracted_data.rows = <<>>) =>
              state'.error = state.error ]_vars

\* the engine refused the query: the call returned the no-data message and the
\* extraction failure as its error
C29_Witness ==
    /\ ReturnedNormally
    /\ calls.engine = "fail"
    /\ calls.synthesizer = "none"
    /\ response.answer = NoDataAnswer
    /\ response.error = <<"Data extraction failed: ", "connection reset">>

(***************************************************************************)
(* The verdict and the issues                                              *)
(***************************************************************************)
\* C30: in every non-empty validation result that reaches the response (from
\* validate_result on either LLM path, or the orchestrator's substitute),
\* is_valid = false implies that the issues list is not empty: a result with no
\* issues is reported valid, whatever the LLM answered.
C30_InvalidHasIssues ==
    (ReturnedNormally /\ response.validation # EmptyDict) =>
        (~response.validation.is_valid => response.validation.issues # <<>>)

\* the LLM answered that a clean relation is not valid: it is reported valid
C30_Witness ==
    /\ ReturnedNormally
    /\ calls.validationLLM = "ok"
    /\ Contains(Lower(recv.validationReply.content), "is_valid: false")
    /\ response.validation # EmptyDict
    /\ response.validation.issues = <<>>
    /\ response.validation.is_valid

====
